---- MODULE Spec2Model ----
(***************************************************************************)
(* A model of the two line-oriented JSON-RPC tool servers of the           *)
(* repository: src/server_openrouter.py (OpenRouter provider, PostgreSQL   *)
(* usage ledger, in-memory usage mirror) and src/server.py (Gemini         *)
(* provider, no ledger).                                                   *)
(*                                                                         *)
(* One step of the model is one iteration of main()'s `while True` loop:   *)
(* a line is read, decoded, routed, and its response is printed.  Inputs   *)
(* of a step (the line, the provider's answer, the state of the database)  *)
(* are drawn from small sets.  Money is counted in units of 10^-8 USD so   *)
(* that the per-million-token rates are integers; token counts and sums    *)
(* are exact integers.  A JSON value that is not a number (null or a       *)
(* string) is written NONNUM.                                              *)
(***************************************************************************)
EXTENDS Integers, Sequences, FiniteSets, TLC

VARIABLES
    server,             \* which of the two programs runs: "openrouter" | "gemini"
    OPENROUTER_API_KEY, \* module constant of server_openrouter.py ("" = not set)
    GEMINI_AVAILABLE,   \* module flag of server.py, computed at import
    state,              \* main(): "Running" inside the loop, "Stopped" after break
    request_id,         \* main()'s local; NotInLocals until first assigned
    out,                \* stdout: the sequence of responses printed so far
    db,                 \* table usage_records, in insertion order
    token_usage,        \* the in-memory token_usage dict
    nRead,              \* history: readline() calls that returned a line or raised
    events,             \* history: the reads and writes of main(), in program order
    nObj,               \* history: lines that decoded as a JSON object
    providerCalls,      \* history: requests.post / generate_content calls made
    okCalls,            \* history: call_openrouter returns that carried usage
    okCallsStoreUp,     \* history: of those, how many found the store working
    storeFailed,        \* history: some database operation has failed so far
    last                \* history: the inputs of the latest step

vars == <<server, OPENROUTER_API_KEY, GEMINI_AVAILABLE, state, request_id, out,
          db, token_usage, nRead, events, nObj, providerCalls, okCalls,
          okCallsStoreUp, storeFailed, last>>

---------------------------------------------------------------------------
(* Bounds of the model *)

\* lines read from stdin before the input ends
MaxLines == 2

\* rows that earlier processes left in usage_records
ForeignRows == 21

---------------------------------------------------------------------------
(* Program constants *)

SESSION_ID == "session-this"
OTHER_SESSION == "session-other"
DEFAULT_MODEL == "gemini-pro"

METHOD_NOT_FOUND == -32601
INTERNAL_ERROR == -32603

\* tier threshold and the rates of save_usage_to_db, in 10^-8 USD per token
TIER_THRESHOLD == 200000
RATE_IN == 125
RATE_IN2 == 250
RATE_OUT == 1000
RATE_OUT2 == 1500

\* LIMIT of the detailed query, and the slice shown by get_token_usage
DETAIL_LIMIT == 20
SHOWN_LIMIT == 10

\* request_id before main() has assigned it ('request_id' not in locals())
NotInLocals == 0

\* a JSON value that is not a number: null or a string
NONNUM == -1

IsNum(v) == v # NONNUM

---------------------------------------------------------------------------
(* Inputs *)

\* the model argument as a JSON value: a string, or a number (wrong type)
StrModel == [type |-> "str", value |-> DEFAULT_MODEL]
IntModel == [type |-> "int", value |-> "5"]

OpenRouterTools == {"ask_ai", "ai_code_review", "ai_brainstorm", "list_models",
                    "get_token_usage", "get_cache_stats", "server_info"}
GeminiTools == {"ask_gemini", "gemini_code_review", "gemini_brainstorm",
                "server_info"}
ProviderTools == {"ask_ai", "ai_code_review", "ai_brainstorm"}
GeminiProviderTools == {"ask_gemini", "gemini_code_review", "gemini_brainstorm"}
UnknownToolName == "no_such_tool"

\* what the provider reports in "usage" on a 200 answer
Usage(p, c, t, cost) ==
    [prompt_tokens |-> p, completion_tokens |-> c, total_tokens |-> t, cost |-> cost]

ProviderUsages ==
    { Usage(5, 2, 7, 0),                  \* consistent, no cost reported
      Usage(5, 2, 0, 1000),               \* total_tokens missing, cost reported
      Usage(250000, 250000, 500000, 0),   \* both counts in the second tier
      Usage(200000, 200001, 400001, 0),   \* at the threshold, and one past it
      Usage(NONNUM, 2, 2, 0),             \* prompt_tokens null
      Usage(5, NONNUM, 5, 0),             \* completion_tokens null
      Usage(5, 2, 7, NONNUM) }            \* cost null

NoUsage == Usage(0, 0, 0, 0)

\* the outcome of requests.post(...) as call_openrouter sees it
ProviderOutcomes ==
    { [kind |-> k, usage |-> NoUsage] : k \in {"transport", "http", "malformed"} }
    \cup { [kind |-> "ok", usage |-> u] : u \in ProviderUsages }

NoProvider == [kind |-> "none", usage |-> NoUsage]

\* the database at the time of one operation
\* "conn_lost": the connection opens and is gone when the INSERT runs
StoreStates == {"up", "conn_fail", "op_fail", "conn_lost"}

---------------------------------------------------------------------------
(* Sequences and formatting *)

RECURSIVE SumField(_, _)
\* the sum of one integer field over the rows of a sequence (0 when empty)
SumField(rows, f) ==
    IF rows = <<>> THEN 0 ELSE Head(rows)[f] + SumField(Tail(rows), f)

\* rows left in insertion order, oldest first
Reverse_KeepOrder(s) == s

RECURSIVE Reverse(_)
\* ORDER BY created_at DESC over rows held in insertion order
Reverse(s) == IF s = <<>> THEN <<>> ELSE Append(Reverse(Tail(s)), Head(s))

\* s[:n]
Take(s, n) == SubSeq(s, 1, IF Len(s) < n THEN Len(s) ELSE n)

\* f"{cost:.6f}" and f"{cost:.4f}": a cost in 10^-8 USD rounded to 10^-6 / 10^-4
Format6(cost) == (cost + 50) \div 100
Format4(cost) == (cost + 5000) \div 10000

---------------------------------------------------------------------------
(* The durable store: save_usage_to_db and get_usage_from_db *)

\* a price list that charges every token at the second rate past the threshold
PromptCost_WholeAtSecondRate(prompt_tokens) ==
    IF prompt_tokens <= TIER_THRESHOLD
    THEN prompt_tokens * RATE_IN
    ELSE prompt_tokens * RATE_IN2

PromptCost(prompt_tokens) ==
    IF prompt_tokens <= TIER_THRESHOLD
    THEN prompt_tokens * RATE_IN
    ELSE TIER_THRESHOLD * RATE_IN + (prompt_tokens - TIER_THRESHOLD) * RATE_IN2

CompletionCost(completion_tokens) ==
    IF completion_tokens <= TIER_THRESHOLD
    THEN completion_tokens * RATE_OUT
    ELSE TIER_THRESHOLD * RATE_OUT + (completion_tokens - TIER_THRESHOLD) * RATE_OUT2

\* a total that ignores the cost the provider reported
TotalCost_AlwaysTiered(prompt_tokens, completion_tokens, cost) ==
    PromptCost(prompt_tokens) + CompletionCost(completion_tokens)

\* total_cost = cost if cost > 0 else (prompt_cost + completion_cost)
TotalCost(prompt_tokens, completion_tokens, cost) ==
    IF cost > 0 THEN cost
    ELSE PromptCost(prompt_tokens) + CompletionCost(completion_tokens)

\* the row of the INSERT statement; created_at is the table's insertion clock
UsageRow(d, model, prompt_tokens, completion_tokens, total_tokens, cost, request_type) ==
    [ model             |-> model,
      prompt_tokens     |-> prompt_tokens,
      completion_tokens |-> completion_tokens,
      total_tokens      |-> total_tokens,
      prompt_cost       |-> PromptCost(prompt_tokens),
      completion_cost   |-> CompletionCost(completion_tokens),
      total_cost        |-> TotalCost(prompt_tokens, completion_tokens, cost),
      request_type      |-> request_type,
      session_id        |-> SESSION_ID,
      created_at        |-> Len(d) + 1 ]

\* save_usage_to_db as it would be if a null cost were read as 0 (`cost or 0`)
save_usage_to_db_NullCostAsZero(d, store, model, prompt_tokens, completion_tokens, total_tokens, cost, request_type) ==
    IF store = "conn_fail" THEN d
    ELSE IF ~IsNum(prompt_tokens) \/ ~IsNum(completion_tokens) THEN d
    ELSE IF store \in {"op_fail", "conn_lost"} THEN d
    ELSE Append(d, UsageRow(d, model, prompt_tokens, completion_tokens, total_tokens,
                            IF IsNum(cost) THEN cost ELSE 0, request_type))

\* save_usage_to_db that keeps one row per session, replacing the earlier one
save_usage_to_db_Upsert(d, store, model, prompt_tokens, completion_tokens, total_tokens, cost, request_type) ==
    IF store # "up" \/ ~IsNum(prompt_tokens) \/ ~IsNum(completion_tokens) \/ ~IsNum(cost)
    THEN d
    ELSE Append(SelectSeq(d, LAMBDA r : r.session_id # SESSION_ID),
                UsageRow(d, model, prompt_tokens, completion_tokens,
                         total_tokens, cost, request_type))

\* The table after save_usage_to_db.  No connection: return.  A non-numeric
\* prompt_tokens, completion_tokens or cost raises TypeError in the pricing
\* arithmetic, and a failing INSERT raises too: both are caught and rolled back.
save_usage_to_db(d, store, model, prompt_tokens, completion_tokens, total_tokens, cost, request_type) ==
    IF store = "conn_fail" THEN d
    ELSE IF ~IsNum(prompt_tokens) \/ ~IsNum(completion_tokens) \/ ~IsNum(cost) THEN d
    ELSE IF store \in {"op_fail", "conn_lost"} THEN d
    ELSE Append(d, UsageRow(d, model, prompt_tokens, completion_tokens,
                            total_tokens, cost, request_type))

\* Lines 118-123: the except branch calls conn.rollback(); on a connection that
\* is gone rollback() raises in its turn and the exception leaves the function.
SaveRaises(store) == store = "conn_lost"

\* a query that never filters
WhereClause_NoFilter(d, period) == d

\* the rows the WHERE clause keeps.  get_token_usage passes no start_date or
\* end_date, so "custom" adds no condition; "today" and "month" compare with the
\* wall clock and are not among the periods drawn here.
WhereClause(d, period) ==
    IF period = "session"
    THEN SelectSeq(d, LAMBDA r : r.session_id = SESSION_ID)
    ELSE d

DB_CONNECTION_FAILED == "Database connection failed"
DB_QUERY_FAILED == "query failed"

ErrorUsageData(msg) ==
    [ error                   |-> msg,
      total_prompt_tokens     |-> 0,
      total_completion_tokens |-> 0,
      total_cost              |-> 0,
      requests                |-> <<>> ]

get_usage_from_db(d, store, detailed, period) ==
    IF store = "conn_fail" THEN ErrorUsageData(DB_CONNECTION_FAILED)
    ELSE IF store \in {"op_fail", "conn_lost"} THEN ErrorUsageData(DB_QUERY_FAILED)
    ELSE LET rows == WhereClause(d, period) IN
        [ total_prompt_tokens     |-> SumField(rows, "prompt_tokens"),
          total_completion_tokens |-> SumField(rows, "completion_tokens"),
          total_tokens            |-> SumField(rows, "total_tokens"),
          total_cost              |-> SumField(rows, "total_cost"),
          total_requests          |-> Len(rows),
          requests                |-> IF detailed
                                      THEN Take(Reverse(rows), DETAIL_LIMIT)
                                      ELSE <<>> ]

---------------------------------------------------------------------------
(* Responses *)

ResultResponse(id, result) ==
    [jsonrpc |-> "2.0", id |-> id, result |-> result]

\* an error response that also carries "result": null
ErrorResponse_AlsoResult(id, code, message) ==
    [jsonrpc |-> "2.0", id |-> id, result |-> "null",
     error |-> [code |-> code, message |-> message]]

ErrorResponse(id, code, message) ==
    [jsonrpc |-> "2.0", id |-> id, error |-> [code |-> code, message |-> message]]

\* {"content": [{"type": "text", "text": result}]}
ToolResult(id, text) ==
    ResultResponse(id, [content |-> <<[type |-> "text", text |-> text]>>])

\* main(), lines 668-675
MethodNotFoundError(id) ==
    ErrorResponse(id, METHOD_NOT_FOUND, "Method not found")

\* handle_tool_call, lines 623-631: the exception caught inside the dispatcher
DispatchError(id, message) ==
    ErrorResponse(id, INTERNAL_ERROR, message)

\* an unknown tool reported with the method-not-found code
UnknownToolError_AsMethodNotFound(id) ==
    ErrorResponse(id, METHOD_NOT_FOUND, "Unknown tool")

\* handle_tool_call, line 609 caught at line 623
UnknownToolError(id) ==
    DispatchError(id, "Unknown tool")

\* `except Exception` that swallows the exception as the JSONDecodeError branch does
MainExcept_Silent(rid) ==
    << >>

\* main(), lines 683-692: what `except Exception` prints, given the request_id
\* found in the locals
MainExcept(rid) ==
    IF rid # NotInLocals
    THEN << ErrorResponse(rid, INTERNAL_ERROR, "Internal error") >>
    ELSE << >>

handle_initialize(id, name, version) ==
    ResultResponse(id, [ protocolVersion |-> "2024-11-05",
                         capabilities    |-> "tools",
                         serverInfo      |-> [name |-> name, version |-> version] ])

\* a catalog that is offered to the first request only
handle_tools_list_FirstRequestOnly(id, api_key) ==
    ResultResponse(id, [tools |-> IF api_key # "" /\ id = 1 THEN OpenRouterTools ELSE {}])

\* the names of the tools in the catalog of server_openrouter.py
handle_tools_list(id, api_key) ==
    ResultResponse(id, [tools |-> IF api_key # "" THEN OpenRouterTools ELSE {}])

\* the names of the tools in the catalog of server.py
gemini_handle_tools_list(id, available) ==
    ResultResponse(id, [tools |-> IF available THEN GeminiTools ELSE {}])

\* the startup notice of server_openrouter.py main(): an error with no id
PLACEHOLDER_KEY == "YOUR_API_KEY_HERE"
StartupNotice ==
    [jsonrpc |-> "2.0",
     error |-> [code |-> INTERNAL_ERROR, message |-> "Please set your OpenRouter API key"]]

---------------------------------------------------------------------------
(* The provider client of server_openrouter.py: call_openrouter *)

InitialTokenUsage ==
    [ total_prompt_tokens     |-> 0,
      total_completion_tokens |-> 0,
      total_cost              |-> 0,
      requests                |-> <<>> ]

\* Lines 419-428: the += statements run in order and the first non-numeric
\* operand raises TypeError, leaving the earlier statements applied.
UpdateTokenUsage(tu, model, usage) ==
    IF ~IsNum(usage.prompt_tokens) THEN tu
    ELSE LET t1 == [tu EXCEPT !.total_prompt_tokens = @ + usage.prompt_tokens] IN
    IF ~IsNum(usage.completion_tokens) THEN t1
    ELSE LET t2 == [t1 EXCEPT !.total_completion_tokens = @ + usage.completion_tokens] IN
    IF ~IsNum(usage.cost) THEN t2
    ELSE [t2 EXCEPT !.total_cost = @ + usage.cost,
                    !.requests = Append(@, [ model             |-> model,
                                             prompt_tokens     |-> usage.prompt_tokens,
                                             completion_tokens |-> usage.completion_tokens,
                                             total_tokens      |-> usage.total_tokens,
                                             cost              |-> usage.cost ])]

\* whether the provider's answer takes the try block to its return statement
\* (line 433) when nothing else raises
CallSucceeds(prov) ==
    /\ prov.kind = "ok"
    /\ IsNum(prov.usage.prompt_tokens)
    /\ IsNum(prov.usage.completion_tokens)
    /\ IsNum(prov.usage.cost)

\* whether call_openrouter returns the answer with its usage block
ReturnsUsage(prov, store) == CallSucceeds(prov) /\ ~SaveRaises(store)

ProviderFailure(content, model) ==
    [content |-> content, usage |-> <<>>, model |-> model, provider |-> ""]

\* call_openrouter: what it returns, and the table and the mirror afterwards
call_openrouter(model, prov, store, d, tu) ==
    IF prov.kind = "http"
    THEN [ret |-> ProviderFailure("OpenRouter API Error", model), db |-> d, token_usage |-> tu]
    ELSE IF prov.kind = "transport"
    THEN [ret |-> ProviderFailure("Error calling OpenRouter", model), db |-> d, token_usage |-> tu]
    ELSE IF prov.kind = "malformed"
    THEN [ret |-> ProviderFailure("Unexpected error", model), db |-> d, token_usage |-> tu]
    ELSE LET u  == prov.usage
             d2 == save_usage_to_db(d, store, model, u.prompt_tokens,
                                    u.completion_tokens, u.total_tokens, u.cost,
                                    "ask_ai")
             t2 == IF SaveRaises(store) THEN tu ELSE UpdateTokenUsage(tu, model, u)
         IN IF CallSucceeds(prov) /\ ~SaveRaises(store)
            THEN [ ret |-> [ content  |-> "answer",
                             usage    |-> << [ prompt_tokens     |-> u.prompt_tokens,
                                               completion_tokens |-> u.completion_tokens,
                                               total_tokens      |-> u.total_tokens,
                                               estimated_cost    |-> Format6(u.cost) ] >>,
                             model    |-> model,
                             provider |-> "Google" ],
                   db |-> d2, token_usage |-> t2 ]
            ELSE [ ret |-> ProviderFailure("Unexpected error", model),
                   db |-> d2, token_usage |-> t2 ]

---------------------------------------------------------------------------
(* The dispatcher of server_openrouter.py: handle_tool_call *)

\* params and arguments as JSON values: an object, or anything else
NotObjArgs == [type |-> "notobj", model |-> StrModel, detailed |-> FALSE, period |-> "all"]
Args(model, detailed, period) ==
    [type |-> "obj", model |-> model, detailed |-> detailed, period |-> period]
DefaultArgs == Args(StrModel, FALSE, "all")

NotObjParams == [type |-> "notobj", name |-> "", arguments |-> DefaultArgs]
Params(name, arguments) == [type |-> "obj", name |-> name, arguments |-> arguments]

ToolTitle(tool) ==
    CASE tool = "ask_ai"         -> "RESPONSE"
      [] tool = "ai_code_review" -> "CODE REVIEW"
      [] tool = "ai_brainstorm"  -> "BRAINSTORM"

\* the f-string of the three provider tools; upper() needs a string
AiText(tool, ret) ==
    [ kind          |-> "ai",
      title         |-> ToolTitle(tool),
      model         |-> ret.model.value,
      provider_info |-> ret.provider,
      content       |-> ret.content,
      usage_info    |-> ret.usage ]

PeriodLabel(period) ==
    CASE period = "all"     -> "All Time"
      [] period = "today"   -> "Today"
      [] period = "month"   -> "This Month"
      [] period = "session" -> "Current Session"
      [] OTHER              -> period

HistoryEntry(req) ==
    [ model             |-> req.model,
      total_tokens      |-> req.total_tokens,
      prompt_tokens     |-> req.prompt_tokens,
      completion_tokens |-> req.completion_tokens,
      cost              |-> Format4(req.total_cost),
      created_at        |-> req.created_at ]

\* lines 587-601: the statistics text built from the store's answer
StatsText(usage_data, detailed, period) ==
    [ kind                    |-> "usage_stats",
      period_label            |-> PeriodLabel(period),
      total_prompt_tokens     |-> usage_data.total_prompt_tokens,
      total_completion_tokens |-> usage_data.total_completion_tokens,
      total_tokens            |-> usage_data.total_tokens,
      total_cost              |-> Format4(usage_data.total_cost),
      total_requests          |-> usage_data.total_requests,
      history                 |-> IF detailed /\ usage_data.requests # <<>>
                                  THEN [i \in 1..Len(Take(usage_data.requests, SHOWN_LIMIT))
                                          |-> HistoryEntry(usage_data.requests[i])]
                                  ELSE <<>> ]

\* lines 571-578: the fallback text built from token_usage
FallbackText(usage_data, tu) ==
    [ kind                    |-> "usage_fallback",
      error                   |-> usage_data.error,
      total_prompt_tokens     |-> tu.total_prompt_tokens,
      total_completion_tokens |-> tu.total_completion_tokens,
      total_tokens            |-> tu.total_prompt_tokens + tu.total_completion_tokens,
      total_cost              |-> Format4(tu.total_cost),
      total_requests          |-> Len(tu.requests) ]

\* what handle_tool_call leaves behind: a response, or an exception that escapes
Returned(response, d, tu) ==
    [raised |-> FALSE, response |-> response, db |-> d, token_usage |-> tu]
Escaped(d, tu) ==
    [raised |-> TRUE, db |-> d, token_usage |-> tu]

\* a usage query that clears the in-memory totals it has just reported
get_token_usage_Resetting(id, arguments, store, d, tu) ==
    Returned(ToolResult(id, FallbackText(ErrorUsageData("reset"), tu)), d, InitialTokenUsage)

\* lines 563-601.  The fallback branch is taken only for an error other than
\* "Database connection failed"; with that error the else branch reads
\* usage_data['total_tokens'], which the error dict lacks: KeyError.
get_token_usage(id, arguments, store, d, tu) ==
    IF arguments.type # "obj"
    THEN Returned(DispatchError(id, "AttributeError: get"), d, tu)
    ELSE LET usage_data == get_usage_from_db(d, store, arguments.detailed, arguments.period) IN
         IF "error" \in DOMAIN usage_data /\ usage_data.error # DB_CONNECTION_FAILED
         THEN Returned(ToolResult(id, FallbackText(usage_data, tu)), d, tu)
         ELSE IF "total_tokens" \notin DOMAIN usage_data
         THEN Returned(DispatchError(id, "KeyError: total_tokens"), d, tu)
         ELSE Returned(ToolResult(id, StatsText(usage_data, arguments.detailed,
                                                arguments.period)), d, tu)

\* the provider tools as they would be if a failed call were re-raised
provider_tool_RaisesOnFailure(id, tool, arguments, prov, store, d, tu) ==
    IF arguments.type # "obj"
    THEN Returned(DispatchError(id, "AttributeError: get"), d, tu)
    ELSE LET r == call_openrouter(arguments.model, prov, store, d, tu) IN
         IF arguments.model.type # "str" \/ r.ret.usage = <<>>
         THEN Returned(DispatchError(id, "provider call failed"), r.db, r.token_usage)
         ELSE Returned(ToolResult(id, AiText(tool, r.ret)), r.db, r.token_usage)

\* lines 484-555: the three provider tools
provider_tool(id, tool, arguments, prov, store, d, tu) ==
    IF arguments.type # "obj"
    THEN Returned(DispatchError(id, "AttributeError: get"), d, tu)
    ELSE LET r == call_openrouter(arguments.model, prov, store, d, tu) IN
         IF arguments.model.type # "str"
         THEN Returned(DispatchError(id, "AttributeError: upper"),
                       r.db, r.token_usage)
         ELSE Returned(ToolResult(id, AiText(tool, r.ret)), r.db, r.token_usage)

\* whether the branch taken reaches call_openrouter (lines 489, 521, 546):
\* arguments.get comes first and needs an object
MakesProviderCall(params) ==
    /\ params.type = "obj"
    /\ params.name \in ProviderTools
    /\ params.arguments.type = "obj"

\* lines 470-631.  params.get runs before the try: a params that is no object
\* raises out of the function.
handle_tool_call(id, params, api_key, prov, store, d, tu) ==
    IF params.type # "obj" THEN Escaped(d, tu)
    ELSE LET tool_name == params.name IN
         IF tool_name = "server_info"
         THEN Returned(ToolResult(id, [kind |-> "server_info", ready |-> api_key # ""]), d, tu)
         ELSE IF tool_name \in ProviderTools
         THEN provider_tool(id, tool_name, params.arguments, prov, store, d, tu)
         ELSE IF tool_name = "list_models"
         THEN Returned(ToolResult(id, [kind |-> "list_models", default |-> DEFAULT_MODEL]), d, tu)
         ELSE IF tool_name = "get_token_usage"
         THEN get_token_usage(id, params.arguments, store, d, tu)
         ELSE IF tool_name = "get_cache_stats"
         THEN Returned(ToolResult(id, [kind |-> "cache_stats", implemented |-> FALSE]), d, tu)
         ELSE Returned(UnknownToolError(id), d, tu)

---------------------------------------------------------------------------
(* The dispatcher of server.py: call_gemini and handle_tool_call *)

\* call_gemini: the text, or the text of the caught exception
call_gemini(prov) ==
    IF prov.kind = "ok" THEN "answer" ELSE "Error calling Gemini"

GeminiText(content) == [kind |-> "gemini", content |-> content]

gemini_handle_tool_call(id, params, available, prov) ==
    IF params.type # "obj" THEN [raised |-> TRUE]
    ELSE LET tool_name == params.name IN
         IF tool_name = "server_info"
         THEN [raised |-> FALSE,
               response |-> ToolResult(id, GeminiText(IF available THEN "connected and ready"
                                                       ELSE "Gemini error"))]
         ELSE IF tool_name \in GeminiProviderTools
         THEN IF ~available
              THEN [raised |-> FALSE,
                    response |-> ToolResult(id, GeminiText("Gemini not available"))]
              ELSE IF params.arguments.type # "obj"
              THEN [raised |-> FALSE,
                    response |-> DispatchError(id, "AttributeError: get")]
              ELSE [raised |-> FALSE,
                    response |-> ToolResult(id, GeminiText(call_gemini(prov)))]
         ELSE [raised |-> FALSE,
               response |-> UnknownToolError(id)]

---------------------------------------------------------------------------
(* The inputs of one tools/call step *)

Periods == {"all", "session", "custom"}

Input(params, prov, store) == [params |-> params, prov |-> prov, store |-> store]

OkOutcome(u) == [kind |-> "ok", usage |-> u]
FailedOutcomes == { p \in ProviderOutcomes : p.kind # "ok" }

\* a provider answer with the state of the database at save_usage_to_db
\* ("none" when the call never gets there)
Scenario(prov, store) == [prov |-> prov, store |-> store]

BasicScenarios ==
    { Scenario(p, "none") : p \in FailedOutcomes }
    \cup { Scenario(OkOutcome(Usage(5, 2, 7, 0)), "up") }

AllScenarios ==
    BasicScenarios
    \cup { Scenario(OkOutcome(u), "up") : u \in ProviderUsages }
    \cup { Scenario(OkOutcome(Usage(5, 2, 7, 0)), s) :
             s \in {"conn_fail", "op_fail", "conn_lost"} }

\* requests that reach call_openrouter: ask_ai with every scenario, the two
\* other tools (which differ from it in the prompt and the title only) with the
\* basic ones, and ask_ai with a model of the wrong type (a JSON number)
ProviderInputs ==
    { Input(Params("ask_ai", Args(StrModel, FALSE, "all")), sc.prov, sc.store) :
        sc \in AllScenarios }
    \cup { Input(Params(t, Args(StrModel, FALSE, "all")), sc.prov, sc.store) :
             t \in ProviderTools \ {"ask_ai"}, sc \in BasicScenarios }
    \cup { Input(Params("ask_ai", Args(IntModel, FALSE, "all")), sc.prov, sc.store) :
             sc \in { x \in BasicScenarios : x.prov.kind \in {"http", "ok"} } }

\* get_token_usage requests, with the state of the database at the query
UsageInputs ==
    { Input(Params("get_token_usage", Args(StrModel, d, p)), NoProvider, "up") :
        d \in BOOLEAN, p \in Periods }
    \cup { Input(Params("get_token_usage", Args(StrModel, a.detailed, a.period)),
                 NoProvider, s) :
             a \in { [detailed |-> FALSE, period |-> "session"],
                     [detailed |-> TRUE, period |-> "all"] },
             s \in {"conn_fail", "op_fail"} }

\* requests that touch neither the provider nor the database
PlainInputs ==
    { Input(NotObjParams, NoProvider, "none") }
    \cup { Input(Params(t, DefaultArgs), NoProvider, "none") :
             t \in {"server_info", "list_models", "get_cache_stats", UnknownToolName} }
    \cup { Input(Params(t, NotObjArgs), NoProvider, "none") :
             t \in {"server_info", "ask_ai", "get_token_usage"} }

OpenRouterInputs == ProviderInputs \cup UsageInputs \cup PlainInputs

GeminiOutcomes == { [kind |-> k, usage |-> NoUsage] : k \in {"ok", "transport"} }

GeminiInputs ==
    { Input(NotObjParams, NoProvider, "none") }
    \cup { Input(Params(t, DefaultArgs), NoProvider, "none") :
             t \in {"server_info", "ask_ai", UnknownToolName} }
    \cup { Input(Params(t, DefaultArgs), p, "none") :
             t \in GeminiProviderTools, p \in GeminiOutcomes }
    \cup { Input(Params("ask_gemini", NotObjArgs), NoProvider, "none") }

NoInput == Input(NotObjParams, NoProvider, "none")

---------------------------------------------------------------------------
(* The state machine: main() *)

\* the k-th row of the table, written by another process earlier
ForeignRow(k) ==
    [ model             |-> StrModel,
      prompt_tokens     |-> 3,
      completion_tokens |-> 4,
      total_tokens      |-> 7,
      prompt_cost       |-> PromptCost(3),
      completion_cost   |-> CompletionCost(4),
      total_cost        |-> PromptCost(3) + CompletionCost(4),
      request_type      |-> "ask_ai",
      session_id        |-> OTHER_SESSION,
      created_at        |-> k ]

Init ==
    /\ server \in {"openrouter", "gemini"}
    /\ \/ /\ server = "openrouter"
          /\ OPENROUTER_API_KEY \in {"", "sk-or-key", PLACEHOLDER_KEY}
          /\ GEMINI_AVAILABLE = FALSE
       \/ /\ server = "gemini"
          /\ OPENROUTER_API_KEY = ""
          /\ GEMINI_AVAILABLE \in BOOLEAN
    /\ state = "Running"
    /\ request_id = NotInLocals
    /\ out = IF server = "openrouter" /\ OPENROUTER_API_KEY = PLACEHOLDER_KEY
             THEN <<StartupNotice>> ELSE <<>>
    /\ db = [k \in 1..ForeignRows |-> ForeignRow(k)]
    /\ token_usage = InitialTokenUsage
    /\ nRead = 0
    /\ events = <<>>
    /\ nObj = 0
    /\ providerCalls = 0
    /\ okCalls = 0
    /\ okCallsStoreUp = 0
    /\ storeFailed = FALSE
    /\ last = [step |-> "start", input |-> NoInput]

\* stdin has failed for good: every later readline() raises as well
StdinBroken == last.step = "readfail"

\* main(), lines 650-692: what one iteration does to stdin and stdout, in
\* program order: readline(), then each response printed and flushed
ReadEvent(n, decoded) == [ev |-> "read", n |-> n, request |-> decoded]
WriteEvent(id) == [ev |-> "write", n |-> id, request |-> FALSE]

\* an iteration whose responses stay in a buffer instead of being printed
IterationEvents_Buffered(n, decoded, responses) ==
    << ReadEvent(n, decoded) >>

IterationEvents(n, decoded, responses) ==
    << ReadEvent(n, decoded) >>
        \o [i \in 1..Len(responses) |-> WriteEvent(responses[i].id)]

CanRead == state = "Running" /\ ~StdinBroken /\ nRead < MaxLines

\* the id of the request on the next line: requests are numbered as they come
NextId == nRead + 1

ServerName == IF server = "openrouter" THEN "claude-openrouter-mcp" ELSE "claude-gemini-mcp"
ServerVersion == IF server = "openrouter" THEN "2.1.0" ELSE "1.0.0"

\* readline() returns "": break
ReadEOF ==
    /\ state = "Running"
    /\ ~StdinBroken
    /\ state' = "Stopped"
    /\ last' = [step |-> "eof", input |-> NoInput]
    /\ UNCHANGED <<server, OPENROUTER_API_KEY, GEMINI_AVAILABLE, request_id, out, db,
                   token_usage, nRead, events, nObj, providerCalls, okCalls,
                   okCallsStoreUp,
                   storeFailed>>

\* readline() raises (OSError on a dead terminal, ValueError on a closed file):
\* not EOFError, so `except Exception` takes it, answers with the request_id in
\* the locals, and the loop calls readline() again
ReadRaises ==
    /\ state = "Running"
    /\ nRead < MaxLines
    /\ nRead' = nRead + 1
    /\ out' = out \o MainExcept(request_id)
    /\ events' = events \o IterationEvents(NextId, FALSE, MainExcept(request_id))
    /\ last' = [step |-> "readfail", input |-> NoInput]
    /\ UNCHANGED <<server, OPENROUTER_API_KEY, GEMINI_AVAILABLE, state, request_id, db,
                   token_usage, nObj, providerCalls, okCalls, okCallsStoreUp,
                   storeFailed>>

\* json.loads raises JSONDecodeError (bad JSON, or an empty line): continue
ReadUndecodable ==
    /\ CanRead
    /\ nRead' = nRead + 1
    /\ events' = events \o IterationEvents(NextId, FALSE, <<>>)
    /\ last' = [step |-> "undecodable", input |-> NoInput]
    /\ UNCHANGED <<server, OPENROUTER_API_KEY, GEMINI_AVAILABLE, state, request_id, out,
                   db, token_usage, nObj, providerCalls, okCalls, okCallsStoreUp,
                   storeFailed>>

\* json.loads returns a list, string, number, bool or None: request.get raises
\* AttributeError, caught by `except Exception`, which answers with whatever
\* request_id an earlier iteration left in the locals
ReadNonObject ==
    /\ CanRead
    /\ nRead' = nRead + 1
    /\ out' = out \o MainExcept(request_id)
    /\ events' = events \o IterationEvents(NextId, FALSE, MainExcept(request_id))
    /\ last' = [step |-> "nonobject", input |-> NoInput]
    /\ UNCHANGED <<server, OPENROUTER_API_KEY, GEMINI_AVAILABLE, state, request_id, db,
                   token_usage, nObj, providerCalls, okCalls, okCallsStoreUp,
                   storeFailed>>

\* a JSON object whose handling touches neither provider nor store
Answer(step, response) ==
    /\ CanRead
    /\ nRead' = nRead + 1
    /\ nObj' = nObj + 1
    /\ request_id' = NextId
    /\ out' = Append(out, response)
    /\ events' = events \o IterationEvents(NextId, TRUE, <<response>>)
    /\ last' = [step |-> step, input |-> NoInput]
    /\ UNCHANGED <<server, OPENROUTER_API_KEY, GEMINI_AVAILABLE, state, db, token_usage,
                   providerCalls, okCalls, okCallsStoreUp,
                   storeFailed>>

Initialize ==
    Answer("initialize", handle_initialize(NextId, ServerName, ServerVersion))

ToolsList ==
    Answer("tools/list",
           IF server = "openrouter"
           THEN handle_tools_list(NextId, OPENROUTER_API_KEY)
           ELSE gemini_handle_tools_list(NextId, GEMINI_AVAILABLE))

\* any other method, or none
MethodNotFound ==
    Answer("notfound", MethodNotFoundError(NextId))

\* tools/call in server_openrouter.py
ToolsCall ==
    /\ CanRead
    /\ server = "openrouter"
    /\ \E i \in OpenRouterInputs :
        LET r == handle_tool_call(NextId, i.params, OPENROUTER_API_KEY, i.prov, i.store,
                                  db, token_usage)
            called == MakesProviderCall(i.params)
            printed == IF r.raised THEN MainExcept(NextId) ELSE <<r.response>>
        IN /\ (i.prov.kind # "none") = called
           /\ out' = out \o printed
           /\ events' = events \o IterationEvents(NextId, TRUE, printed)
           /\ db' = r.db
           /\ token_usage' = r.token_usage
           /\ providerCalls' = providerCalls + (IF called THEN 1 ELSE 0)
           /\ okCalls' = okCalls + (IF called /\ ReturnsUsage(i.prov, i.store) THEN 1 ELSE 0)
           /\ okCallsStoreUp' = okCallsStoreUp
                 + (IF called /\ ReturnsUsage(i.prov, i.store) /\ i.store = "up" THEN 1 ELSE 0)
           /\ storeFailed' = (storeFailed \/ i.store \notin {"up", "none"})
           /\ last' = [step |-> "tools/call", input |-> i]
    /\ nRead' = nRead + 1
    /\ nObj' = nObj + 1
    /\ request_id' = NextId
    /\ UNCHANGED <<server, OPENROUTER_API_KEY, GEMINI_AVAILABLE, state>>

\* tools/call in server.py
GeminiToolsCall ==
    /\ CanRead
    /\ server = "gemini"
    /\ \E i \in GeminiInputs :
        LET r == gemini_handle_tool_call(NextId, i.params, GEMINI_AVAILABLE, i.prov)
            called == /\ i.params.type = "obj"
                      /\ i.params.name \in GeminiProviderTools
                      /\ i.params.arguments.type = "obj"
                      /\ GEMINI_AVAILABLE
            printed == IF r.raised THEN MainExcept(NextId) ELSE <<r.response>>
        IN /\ (i.prov.kind # "none") = called
           /\ out' = out \o printed
           /\ events' = events \o IterationEvents(NextId, TRUE, printed)
           /\ providerCalls' = providerCalls + (IF called THEN 1 ELSE 0)
           /\ last' = [step |-> "tools/call", input |-> i]
    /\ nRead' = nRead + 1
    /\ nObj' = nObj + 1
    /\ request_id' = NextId
    /\ UNCHANGED <<server, OPENROUTER_API_KEY, GEMINI_AVAILABLE, state, db, token_usage,
                   okCalls, okCallsStoreUp,
                   storeFailed>>

Next ==
    \/ ReadEOF
    \/ ReadRaises
    \/ ReadUndecodable
    \/ ReadNonObject
    \/ Initialize
    \/ ToolsList
    \/ MethodNotFound
    \/ ToolsCall
    \/ GeminiToolsCall

Spec == Init /\ [][Next]_vars

---------------------------------------------------------------------------
(* Vocabulary of the properties *)

IsResult(r) == "result" \in DOMAIN r
IsError(r) == "error" \in DOMAIN r

\* the responses to requests: everything printed except the startup notice
Responses == SelectSeq(out, LAMBDA r : "id" \in DOMAIN r)

LastResponse == out[Len(out)]

\* the text of a tools/call result
TextOf(r) == r.result.content[1].text

LastIsToolsCall == last.step = "tools/call"
LastParams == last.input.params
LastArgs == last.input.params.arguments

\* the latest step called one of the tools of ts with an object for params
LastCalled(ts) ==
    /\ LastIsToolsCall
    /\ LastParams.type = "obj"
    /\ LastParams.name \in ts

\* the latest step made a provider call
LastMadeProviderCall == LastIsToolsCall /\ last.input.prov.kind # "none"

\* the latest step made a provider call that failed: a transport failure, a
\* non-2xx status, or an exception inside the provider client
LastProviderFailed ==
    /\ LastMadeProviderCall
    /\ IF server = "openrouter" THEN ~CallSucceeds(last.input.prov)
                                ELSE last.input.prov.kind # "ok"

ToolsOfServer == IF server = "openrouter" THEN OpenRouterTools ELSE GeminiTools

LastNamedUnknownTool ==
    /\ LastIsToolsCall
    /\ LastParams.type = "obj"
    /\ LastParams.name \notin ToolsOfServer

\* the rows this process appended
SessionRows == SelectSeq(db, LAMBDA r : r.session_id = SESSION_ID)

---------------------------------------------------------------------------
(* C1 *)

\* C1: a line that does not decode as a JSON object produces no response and
\* does not stop the loop, so the number of responses always equals the number
\* of lines that decoded as JSON objects.
C1_ResponsesEqualObjectLines ==
    /\ Len(Responses) = nObj
    /\ last.step \in {"undecodable", "nonobject"} => state = "Running"

---------------------------------------------------------------------------
(* C2 *)

\* C2: every response printed has exactly one of the fields result and error.
C2_ExactlyOneOfResultAndError ==
    \A i \in 1..Len(out) : IsResult(out[i]) # IsError(out[i])

\* a tools/call answered with a result and then a tools/call answered with an error
C2_Witness ==
    /\ Len(out) = 2
    /\ LastIsToolsCall
    /\ IsResult(out[1]) /\ ~IsError(out[1])
    /\ IsError(out[2]) /\ ~IsResult(out[2])

---------------------------------------------------------------------------
(* C3 *)

ProviderErrorTexts ==
    {"OpenRouter API Error", "Error calling OpenRouter", "Unexpected error",
     "Error calling Gemini"}

\* the response is a result that carries the provider's error text and no usage
LastIsProviderErrorResult ==
    /\ IsResult(LastResponse) /\ ~IsError(LastResponse)
    /\ LastResponse.id = nRead
    /\ TextOf(LastResponse).content \in ProviderErrorTexts
    /\ server = "openrouter" => TextOf(LastResponse).usage_info = <<>>

LastIsErrorResponse ==
    /\ IsError(LastResponse) /\ ~IsResult(LastResponse)
    /\ LastResponse.id = nRead

UnknownsAreErrors ==
    /\ last.step = "notfound" => LastIsErrorResponse
    /\ LastNamedUnknownTool => LastIsErrorResponse

\* C3 as stated: a failed provider call always yields a result with the error
\* text and no usage block, whatever the arguments; unknown methods and unknown
\* tools yield JSON-RPC errors.
C3_Original ==
    /\ LastProviderFailed => LastIsProviderErrorResult
    /\ UnknownsAreErrors

\* a provider tool was called with arguments whose model is not a string
LastModelMisused ==
    /\ LastCalled(ProviderTools)
    /\ LastArgs.type = "obj"
    /\ LastArgs.model.type # "str"

\* C3 amended: the same for calls whose model argument is a string (or
\* absent); a model that is not a string yields the JSON-RPC error -32603.
C3_ProviderFailureIsData ==
    /\ (LastProviderFailed /\ LastArgs.model.type = "str") => LastIsProviderErrorResult
    /\ (server = "openrouter" /\ LastModelMisused)
          => LastIsErrorResponse /\ LastResponse.error.code = INTERNAL_ERROR
    /\ UnknownsAreErrors

\* ask_ai with a string model has just met a non-2xx answer
C3_Witness ==
    /\ LastCalled({"ask_ai"})
    /\ last.input.prov.kind = "http"
    /\ LastArgs.model.type = "str"
    /\ LastIsProviderErrorResult

---------------------------------------------------------------------------
(* C4 *)

LastWasUsageQuery ==
    /\ LastCalled({"get_token_usage"})
    /\ LastArgs.type = "obj"

\* C4: get_token_usage with period "session" reports as many requests as this
\* process has made successful provider calls, whether or not the store could
\* be reached.
C4_SessionCountIsSuccessfulCalls ==
    (LastWasUsageQuery /\ LastArgs.period = "session")
        => /\ IsResult(LastResponse)
           /\ TextOf(LastResponse).total_requests = okCalls

---------------------------------------------------------------------------
(* C5 *)

LastStoreUnavailable == LastIsToolsCall /\ last.input.store \in {"conn_fail", "op_fail"}

\* C5: an unavailable store never turns a tools/call into a JSON-RPC error: the
\* provider tools return their normal result and get_token_usage returns the
\* in-memory totals labelled as fallback data.
C5_StoreFailureNeverAnError ==
    (LastStoreUnavailable /\ LastArgs.model.type = "str")
        => /\ IsResult(LastResponse)
           /\ LastCalled(ProviderTools) => TextOf(LastResponse).content = "answer"
           /\ LastCalled({"get_token_usage"})
                => /\ TextOf(LastResponse).kind = "usage_fallback"
                   /\ TextOf(LastResponse).total_requests = Len(token_usage.requests)

---------------------------------------------------------------------------
(* C6 *)

\* no provider credential was configured at startup
NoCredential ==
    IF server = "openrouter" THEN OPENROUTER_API_KEY = "" ELSE ~GEMINI_AVAILABLE

---------------------------------------------------------------------------
(* C7 *)

\* C7: every persisted row has total_tokens = prompt_tokens + completion_tokens.
C7_TotalIsSumInEveryRow ==
    \A i \in 1..Len(db) :
        db[i].total_tokens = db[i].prompt_tokens + db[i].completion_tokens

---------------------------------------------------------------------------
(* C8 *)

\* C8: the rows this process has appended are as many as the successful
\* provider calls it made while the store worked; a failed call appends none.
C8_OneRowPerSuccessfulCall ==
    /\ Len(SessionRows) = okCallsStoreUp
    /\ okCallsStoreUp <= okCalls
    /\ okCalls <= providerCalls

\* two successful calls, one of them while the store was down, and one row
C8_Witness ==
    /\ okCalls = 2
    /\ okCallsStoreUp = 1
    /\ Len(SessionRows) = 1

---------------------------------------------------------------------------
(* C9 *)

\* the request of the latest step raises an exception in handle_tool_call:
\* params or arguments that are no object where .get is called on them, a
\* model that is no string, an unknown tool, or the KeyError of get_token_usage
LastRaises(i) ==
    IF i.params.type # "obj" THEN TRUE
    ELSE IF server = "openrouter"
    THEN \/ i.params.name \notin OpenRouterTools
         \/ /\ i.params.name \in ProviderTools \cup {"get_token_usage"}
            /\ i.params.arguments.type # "obj"
         \/ /\ i.params.name \in ProviderTools
            /\ i.params.arguments.model.type # "str"
         \/ /\ i.params.name = "get_token_usage"
            /\ i.store = "conn_fail"
    ELSE \/ i.params.name \notin GeminiTools
         \/ /\ i.params.name \in GeminiProviderTools
            /\ GEMINI_AVAILABLE
            /\ i.params.arguments.type # "obj"

\* C9: error responses carry -32601 or -32603 and nothing else: -32601 for an
\* unknown method, -32603 for an unknown tool or an exception in a tools/call.
C9_OnlyTwoErrorCodes ==
    /\ \A i \in 1..Len(out) :
          IsError(out[i]) => out[i].error.code \in {METHOD_NOT_FOUND, INTERNAL_ERROR}
    /\ last.step = "notfound"
          => LastIsErrorResponse /\ LastResponse.error.code = METHOD_NOT_FOUND
    /\ (LastIsToolsCall /\ LastRaises(last.input))
          => LastIsErrorResponse /\ LastResponse.error.code = INTERNAL_ERROR
    /\ (LastIsToolsCall /\ IsError(LastResponse))
          => LastResponse.error.code = INTERNAL_ERROR

\* an unknown method answered with -32601, then an unknown tool with -32603
C9_Witness ==
    /\ Len(out) = 2
    /\ IsError(out[1]) /\ out[1].error.code = METHOD_NOT_FOUND
    /\ LastNamedUnknownTool
    /\ IsError(out[2]) /\ out[2].error.code = INTERNAL_ERROR

---------------------------------------------------------------------------
(* C10 *)

\* C10: a tools/call whose handling raises an exception is answered with
\* exactly one error response, code -32603, carrying the id of that request,
\* and the loop keeps running.
C10_ExceptionYieldsOneInternalError ==
    [][ (last'.step = "tools/call" /\ nRead' = nRead + 1 /\ LastRaises(last'.input))
          => /\ Len(out') = Len(out) + 1
             /\ SubSeq(out', 1, Len(out)) = out
             /\ IsError(out'[Len(out')]) /\ ~IsResult(out'[Len(out')])
             /\ out'[Len(out')].error.code = INTERNAL_ERROR
             /\ out'[Len(out')].id = nRead'
             /\ state' = "Running" ]_vars

\* the first line was a tools/call whose params are no object; it got the
\* internal error with id 1, and the second line was read and answered
C10_Witness ==
    /\ nRead = 2
    /\ Len(Responses) = 2
    /\ Responses[1] = ErrorResponse(1, INTERNAL_ERROR, "Internal error")
    /\ Responses[2].id = 2

---------------------------------------------------------------------------
(* C11 *)

WriteEvents == SelectSeq(events, LAMBDA e : e.ev = "write")

\* C11: the response to a request is printed right after the request is read,
\* before any further read, so no two requests are ever in flight; responses
\* come out in the order of their requests, and stdout holds exactly the
\* responses written.
C11_RequestThenResponse ==
    /\ \A j \in 1..Len(events) :
          (events[j].ev = "read" /\ events[j].request)
              => /\ j < Len(events)
                 /\ events[j + 1] = WriteEvent(events[j].n)
    /\ \A j, k \in 1..Len(events) :
          (j < k /\ events[j].ev = "write" /\ events[k].ev = "write")
              => events[j].n <= events[k].n
    /\ Len(WriteEvents) = Len(Responses)
    /\ \A j \in 1..Len(Responses) : WriteEvents[j].n = Responses[j].id

\* two requests, each answered before the next read
C11_Witness ==
    events = << ReadEvent(1, TRUE), WriteEvent(1), ReadEvent(2, TRUE), WriteEvent(2) >>

---------------------------------------------------------------------------
(* C12 *)

\* C12: the loop goes from Running to Stopped at end-of-input and when reading
\* a line fails for good, and once Stopped it reads nothing and prints nothing.
C12_StopsOnEofOrReadFailure ==
    [][ /\ last'.step \in {"eof", "readfail"} => state' = "Stopped"
        /\ state = "Stopped" => (nRead' = nRead /\ out' = out) ]_vars

---------------------------------------------------------------------------
(* C13 *)

\* the tool set tools/list would return in the current state
Catalog ==
    IF server = "openrouter"
    THEN handle_tools_list(NotInLocals, OPENROUTER_API_KEY).result.tools
    ELSE gemini_handle_tools_list(NotInLocals, GEMINI_AVAILABLE).result.tools

IsToolsListResponse(r) == IsResult(r) /\ "tools" \in DOMAIN r.result

\* C13: the flag that gates the catalog never changes, no request changes what
\* tools/list would return, and every tools/list response of the process
\* carries that same tool set.
C13_ToolsListIdempotent ==
    /\ [](\A i \in 1..Len(out) : IsToolsListResponse(out[i]) => out[i].result.tools = Catalog)
    /\ [][ /\ OPENROUTER_API_KEY' = OPENROUTER_API_KEY
           /\ GEMINI_AVAILABLE' = GEMINI_AVAILABLE
           /\ Catalog' = Catalog ]_vars

\* tools/list answered twice with the same, non-empty tool set
C13_Witness ==
    /\ Len(out) = 2
    /\ IsToolsListResponse(out[1]) /\ IsToolsListResponse(out[2])
    /\ out[1].result.tools = out[2].result.tools
    /\ out[1].result.tools # {}

---------------------------------------------------------------------------
(* C14 *)

Min(a, b) == IF a < b THEN a ELSE b
Max(a, b) == IF a > b THEN a ELSE b

\* min(t, threshold) tokens at the lower rate plus the rest at the higher one
TwoTier(t, lower, higher) ==
    Min(t, TIER_THRESHOLD) * lower + Max(t - TIER_THRESHOLD, 0) * higher

\* the rows this process appended: those after the rows it found
AppendedRows == SubSeq(db, ForeignRows + 1, Len(db))

\* C14: in every row written the prompt cost is the two-tier cost at the rates
\* 1.25 and 2.50 per million and the completion cost the two-tier cost at 10
\* and 15 per million (here in 10^-8 USD per token); 250000 prompt tokens cost
\* 200000 at the lower rate plus 50000 at the higher one, and exactly 200000
\* tokens are charged at the lower rate only.
C14_TieredCost ==
    \A i \in 1..Len(AppendedRows) :
        LET r == AppendedRows[i] IN
        /\ r.prompt_cost = TwoTier(r.prompt_tokens, 125, 250)
        /\ r.completion_cost = TwoTier(r.completion_tokens, 1000, 1500)
        /\ r.prompt_tokens = 250000 => r.prompt_cost = 200000 * 125 + 50000 * 250
        /\ r.prompt_tokens = 200000 => r.prompt_cost = 200000 * 125
        /\ r.completion_tokens = 200001 => r.completion_cost = 200000 * 1000 + 1500

\* one row with 250000 prompt tokens and one with exactly 200000
C14_Witness ==
    /\ Len(AppendedRows) = 2
    /\ AppendedRows[1].prompt_tokens = 250000
    /\ AppendedRows[2].prompt_tokens = 200000

---------------------------------------------------------------------------
(* C15 *)

\* C15: the in-memory aggregator has one entry per successful provider call,
\* with or without a working store, and its prompt and completion totals are
\* the sums over those entries.
C15_AggregatorCountsSuccessfulCalls ==
    /\ Len(token_usage.requests) = okCalls
    /\ token_usage.total_prompt_tokens = SumField(token_usage.requests, "prompt_tokens")
    /\ token_usage.total_completion_tokens
          = SumField(token_usage.requests, "completion_tokens")

---------------------------------------------------------------------------
(* C16 *)

\* the latest step made a successful provider call and the INSERT went through
LastAppendedRow ==
    /\ LastCalled(ProviderTools)
    /\ LastArgs.type = "obj"
    /\ CallSucceeds(last.input.prov)
    /\ last.input.store = "up"

\* C16: the total_cost of a row is the cost the provider reported when that is
\* greater than zero, and the sum of the row's tiered prompt and completion
\* costs when the provider reported none or zero.
C16_TotalCostRule ==
    LastAppendedRow
        => LET r == db[Len(db)]
               cost == last.input.prov.usage.cost
           IN /\ Len(db) > ForeignRows
              /\ cost > 0 => r.total_cost = cost
              /\ cost = 0 => r.total_cost = r.prompt_cost + r.completion_cost

\* a row whose total_cost is the reported cost and not the tiered sum
C16_Witness ==
    /\ LastAppendedRow
    /\ last.input.prov.usage.cost > 0
    /\ db[Len(db)].total_cost = last.input.prov.usage.cost
    /\ db[Len(db)].total_cost # db[Len(db)].prompt_cost + db[Len(db)].completion_cost

---------------------------------------------------------------------------
(* C17 *)

\* the records a query of the given period is about
Matching(period) == IF period = "session" THEN AppendedRows ELSE db

\* the latest step was a usage query that found the store working
LastQueriedStore == LastWasUsageQuery /\ last.input.store = "up"

\* C17: the rows tagged with this process's session id are exactly the rows it
\* appended; a "session" query reports the sums and the count over those rows
\* and an "all" query over every row, all of them zero when no row matches.
C17_SessionAndAllAggregate ==
    /\ \A i \in 1..Len(db) : (db[i].session_id = SESSION_ID) <=> (i > ForeignRows)
    /\ (LastQueriedStore /\ LastArgs.period \in {"session", "all"})
          => /\ IsResult(LastResponse)
             /\ LET rows == Matching(LastArgs.period)
                    t == TextOf(LastResponse)
                IN /\ t.kind = "usage_stats"
                   /\ t.total_prompt_tokens = SumField(rows, "prompt_tokens")
                   /\ t.total_completion_tokens = SumField(rows, "completion_tokens")
                   /\ t.total_tokens = SumField(rows, "total_tokens")
                   /\ t.total_cost = Format4(SumField(rows, "total_cost"))
                   /\ t.total_requests = Len(rows)
                   /\ rows = <<>>
                        => /\ t.total_prompt_tokens = 0
                           /\ t.total_completion_tokens = 0
                           /\ t.total_tokens = 0
                           /\ t.total_cost = 0
                           /\ t.total_requests = 0

\* a "session" query that counts the one row of this process among many
C17_Witness ==
    /\ LastQueriedStore
    /\ LastArgs.period = "session"
    /\ Len(AppendedRows) = 1
    /\ IsResult(LastResponse)
    /\ TextOf(LastResponse).total_requests = 1
    /\ TextOf(LastResponse).total_prompt_tokens = AppendedRows[1].prompt_tokens

---------------------------------------------------------------------------
(* C18 *)

\* C18: get_token_usage with period "custom" and no start or end bound is
\* rejected: its response is never a set of usage totals.
C18_CustomWithoutBoundsRejected ==
    (LastWasUsageQuery /\ LastArgs.period = "custom")
        => ~(/\ IsResult(LastResponse)
             /\ TextOf(LastResponse).kind \in {"usage_stats", "usage_fallback"})

---------------------------------------------------------------------------
(* C19 *)

\* C19: of the m matching records a detailed query gets the min(20, m) newest
\* from the store, newest first, and get_token_usage lists the first
\* min(10, m) of them in that order; a query that is not detailed gets and
\* lists none.
C19_DetailedListsNewestFirst ==
    /\ (LastQueriedStore /\ LastArgs.period \in {"session", "all"})
          => LET rows == Matching(LastArgs.period)
                 m == Len(rows)
                 requests == get_usage_from_db(db, "up", TRUE, LastArgs.period).requests
             IN /\ Len(requests) = Min(20, m)
                /\ \A i \in 1..Len(requests) : requests[i] = rows[m + 1 - i]
                /\ get_usage_from_db(db, "up", FALSE, LastArgs.period).requests = <<>>
    /\ (LastQueriedStore /\ LastArgs.period \in {"session", "all"})
          => /\ IsResult(LastResponse)
             /\ LET rows == Matching(LastArgs.period)
                    m == Len(rows)
                    history == TextOf(LastResponse).history
                IN IF LastArgs.detailed
                   THEN /\ Len(history) = Min(10, m)
                        /\ \A i \in 1..Len(history) :
                              history[i].created_at = rows[m + 1 - i].created_at
                   ELSE history = <<>>

\* a detailed "all" query over more than 20 rows, answered with the 10 newest
C19_Witness ==
    /\ LastQueriedStore
    /\ LastArgs.period = "all"
    /\ LastArgs.detailed
    /\ Len(db) > 21
    /\ IsResult(LastResponse)
    /\ Len(TextOf(LastResponse).history) = 10
    /\ TextOf(LastResponse).history[1].created_at = Len(db)

---------------------------------------------------------------------------
(* C20 *)

\* the tools that are answered without the provider
LocalTools == {"server_info", "list_models", "get_token_usage", "get_cache_stats"}

\* the request just handled is one of those the claim names
HandledWithoutProvider ==
    /\ nRead' = nRead + 1
    /\ \/ last'.step \in {"initialize", "tools/list", "notfound"}
       \/ /\ last'.step = "tools/call"
          /\ last'.input.params.type = "obj"
          /\ \/ last'.input.params.name \in LocalTools \cap ToolsOfServer
             \/ last'.input.params.name \notin ToolsOfServer

\* C20: initialize, tools/list, an unknown method, an unknown tool and the
\* tools server_info, list_models, get_token_usage and get_cache_stats call no
\* provider and leave the table and the in-memory aggregator as they were.
C20_NoEffectRequests ==
    [][ HandledWithoutProvider
          => /\ providerCalls' = providerCalls
             /\ db' = db
             /\ token_usage' = token_usage ]_vars

\* a usage query answered after a call had filled the table and the aggregator
C20_Witness ==
    /\ LastQueriedStore
    /\ providerCalls = 1
    /\ Len(AppendedRows) = 1
    /\ Len(token_usage.requests) = 1

---------------------------------------------------------------------------
(* C21 *)

\* the step just taken was a tools/call of server_openrouter.py
ToolsCallStep == last'.step = "tools/call" /\ nRead' = nRead + 1 /\ server = "openrouter"

\* the step just taken called save_usage_to_db and the write failed: the
\* database failed, or the values could not be priced
WriteFailedStep ==
    /\ ToolsCallStep
    /\ last'.input.prov.kind = "ok"
    /\ last'.input.store # "up" \/ ~CallSucceeds(last'.input.prov)

\* C21: every step leaves the rows already in usage_records in place and
\* unchanged, and a write that fails leaves the table exactly as it was.
C21_LedgerAppendOnly ==
    [][ /\ Len(db') >= Len(db)
        /\ SubSeq(db', 1, Len(db)) = db
        /\ WriteFailedStep => db' = db ]_vars

\* a write has failed after an earlier one had appended a row, which is still there
C21_Witness ==
    /\ nRead = 2
    /\ LastCalled(ProviderTools)
    /\ last.input.prov.kind = "ok"
    /\ last.input.store = "op_fail"
    /\ Len(AppendedRows) = 1

---------------------------------------------------------------------------
(* C22 *)

\* the step just taken was a tools/call of ask_ai, ai_code_review or
\* ai_brainstorm with an object for its arguments
ProviderStep == ToolsCallStep /\ MakesProviderCall(last'.input.params)

\* what the same request is answered when the write succeeds
ResponseWithStoreUp ==
    handle_tool_call(nRead', last'.input.params, OPENROUTER_API_KEY, last'.input.prov,
                     "up", db, token_usage).response

\* C22: a tools/call of a provider tool makes exactly one provider call and
\* writes at most one row; when the write fails the response is the one given
\* when it succeeds; and a row is only ever written by the request whose
\* provider call it records, never later.
C22_NothingRetried ==
    [][ /\ ProviderStep
             => /\ providerCalls' = providerCalls + 1
                /\ Len(db') <= Len(db) + 1
                /\ (CallSucceeds(last'.input.prov) /\ last'.input.store # "up")
                      => /\ db' = db
                         /\ out' = Append(out, ResponseWithStoreUp)
        /\ db' # db
             => /\ ProviderStep
                /\ last'.input.store = "up"
                /\ Len(db') = Len(db) + 1
                /\ db'[Len(db')].prompt_tokens = last'.input.prov.usage.prompt_tokens
                /\ db'[Len(db')].completion_tokens
                      = last'.input.prov.usage.completion_tokens ]_vars

---------------------------------------------------------------------------
(* C23 *)

---------------------------------------------------------------------------
(* C24 *)

\* C24: every response is written while the line that carries its id is being
\* processed, and no id is used by two responses (the ids of the input lines
\* are all different here).
C24_ResponseCarriesIdOfCurrentLine ==
    /\ \A j \in 1..Len(events) :
          events[j].ev = "write"
              => /\ j > 1
                 /\ events[j - 1] = ReadEvent(events[j].n, TRUE)
    /\ \A j, k \in 1..Len(Responses) :
          j # k => Responses[j].id # Responses[k].id

---------------------------------------------------------------------------
(* C25 *)

\* C25: the totals of token_usage are always the sums over its requests list,
\* and a call that is answered with a provider error leaves token_usage as it
\* was.
C25_AggregatorSelfConsistent ==
    /\ [](/\ token_usage.total_prompt_tokens
               = SumField(token_usage.requests, "prompt_tokens")
          /\ token_usage.total_completion_tokens
               = SumField(token_usage.requests, "completion_tokens")
          /\ token_usage.total_cost = SumField(token_usage.requests, "cost"))
    /\ [][ (ProviderStep /\ ~ReturnsUsage(last'.input.prov, last'.input.store))
             => token_usage' = token_usage ]_vars

---------------------------------------------------------------------------
(* C26 *)

\* C26: as long as no database operation has failed, token_usage equals the
\* session-scoped aggregate of the table: token totals, total cost and count.
C26_MirrorEqualsSessionAggregate ==
    (server = "openrouter" /\ ~storeFailed)
        => /\ token_usage.total_prompt_tokens = SumField(AppendedRows, "prompt_tokens")
           /\ token_usage.total_completion_tokens
                = SumField(AppendedRows, "completion_tokens")
           /\ token_usage.total_cost = SumField(AppendedRows, "total_cost")
           /\ Len(token_usage.requests) = Len(AppendedRows)

---------------------------------------------------------------------------
(* C27 *)

\* C27: the request_type of a row names the tool whose call wrote it.
C27_RequestTypeNamesTheTool ==
    LastAppendedRow => db[Len(db)].request_type = LastParams.name

====
